---- MODULE Spec2Model ----
(***************************************************************************)
(* A model of the xcresult report tool: src/src/cli.ts (main) and the      *)
(* earlier wrapper main of src/unnamed/part_000.                            *)
(*                                                                         *)
(* Text that the code only builds and prints (section lines) is modelled   *)
(* as sequences of line records; text that the code matches with a regular *)
(* expression (the version output, the plist text, the target list) is     *)
(* modelled as sequences of one-character strings and matched character by *)
(* character.  The external commands are the environment: each step that   *)
(* runs one draws its outcome (a failure with its message, or an output)   *)
(* from a bounded set.                                                     *)
(***************************************************************************)
EXTENDS Integers, Sequences, FiniteSets, TLC

VARIABLES
    pc,                 \* position in main
    argv,               \* parsed options: path facts and the boolean flags
    xcodeBuildOutput,   \* cli.ts:133, part_000:71
    isXcode16OrHigher,  \* cli.ts:142, part_000:82
    testData,           \* cli.ts:231 (legacy) / cli.ts:160 (modern): the parsed document
    testSummary,        \* cli.ts:150
    testDetails,        \* cli.ts:151
    coverageSummary,    \* cli.ts:285
    targets,            \* cli.ts:307
    onlyTargetSupported,\* cli.ts:313
    targetIndex,        \* position of the for loop of cli.ts:323
    tempDir,            \* the scratch directory of cli.ts:373 on disk
    commands,           \* the external commands issued so far, in order
    stdout,             \* what console.log printed
    stderr,             \* what console.error printed
    exitCode            \* -1 while running, else the process exit status

vars == <<pc, argv, xcodeBuildOutput, isXcode16OrHigher, testData, testSummary,
          testDetails, coverageSummary, targets, onlyTargetSupported, targetIndex,
          tempDir, commands, stdout, stderr, exitCode>>

(***************************************************************************)
(* Bounds of the model.                                                    *)
(***************************************************************************)
MaxTargets == 2
MaxNodes == 3
MaxCount == 2

(***************************************************************************)
(* Characters and strings.                                                 *)
(***************************************************************************)
Digits == {"0", "1", "2", "3", "4", "5", "6", "7", "8", "9"}

HexDigits == Digits \cup {"A", "B", "C", "D", "E", "F"}

Whitespace == {" ", "\t", "\n", "\r"}

DigitVal(c) ==
    CASE c = "0" -> 0 [] c = "1" -> 1 [] c = "2" -> 2 [] c = "3" -> 3
      [] c = "4" -> 4 [] c = "5" -> 5 [] c = "6" -> 6 [] c = "7" -> 7
      [] c = "8" -> 8 [] c = "9" -> 9

RECURSIVE Str(_)
Str(s) == IF s = <<>> THEN "" ELSE s[1] \o Str(Tail(s))

RECURSIVE Concat(_)
Concat(ss) == IF ss = <<>> THEN <<>> ELSE Head(ss) \o Concat(Tail(ss))

Range(s) == {s[i] : i \in 1..Len(s)}

\* parseInt of a run of decimal digits
RECURSIVE ParseInt(_)
ParseInt(ds) ==
    IF ds = <<>> THEN 0
    ELSE 10 * ParseInt(SubSeq(ds, 1, Len(ds) - 1)) + DigitVal(ds[Len(ds)])

\* the end (exclusive) of the longest run of characters of set cs that starts at i
RECURSIVE RunEnd(_, _, _)
RunEnd(s, i, cs) ==
    IF i <= Len(s) /\ s[i] \in cs THEN RunEnd(s, i + 1, cs) ELSE i

StartsWithAt(s, i, lit) ==
    /\ i + Len(lit) - 1 <= Len(s)
    /\ SubSeq(s, i, i + Len(lit) - 1) = lit

(***************************************************************************)
(* Version detection: /Xcode (\d+)\.(\d+)/ and parseInt(match[1]) >= 16.   *)
(***************************************************************************)
XcodeLit == <<"X", "c", "o", "d", "e", " ">>

\* the pattern matches at position i: "Xcode ", digits, ".", digits.  \d+ is
\* followed by a non-digit, so only the longest run of digits can match.
XcodeMatchAt(s, i) ==
    /\ StartsWithAt(s, i, XcodeLit)
    /\ LET a == i + Len(XcodeLit)
           b == RunEnd(s, a, Digits)
       IN  /\ b > a
           /\ b <= Len(s) /\ s[b] = "."
           /\ b + 1 <= Len(s) /\ s[b + 1] \in Digits

XcodeMatches(s) == \E i \in 1..Len(s) : XcodeMatchAt(s, i)

\* match[1] of the leftmost match
XcodeMajor(s) ==
    LET i == CHOOSE k \in 1..Len(s) :
                 XcodeMatchAt(s, k) /\ \A j \in 1..(k - 1) : ~XcodeMatchAt(s, j)
        a == i + Len(XcodeLit)
    IN  SubSeq(s, a, RunEnd(s, a, Digits) - 1)

Xcode16Boundary == 16

IsXcode16OrHigher(s) ==
    XcodeMatches(s) /\ ParseInt(XcodeMajor(s)) >= Xcode16Boundary

\* what `xcodebuild -version` may print
VersionPrefixes ==
    {<<>>, XcodeLit, <<"x", "c", "o", "d", "e", " ">>, <<"X", "c", "o", "d", "e">>}

VersionMajors ==
    {<<>>, <<"9">>, <<"1", "5">>, <<"1", "6">>, <<"1", "7">>, <<"0", "1", "6">>, <<"1", "6", "0">>}

VersionSeps == {<<>>, <<".">>, <<" ">>}

VersionMinors == {<<>>, <<"0">>, <<"3">>}

VersionSuffixes ==
    {<<>>, <<"\n", "B", "u", "i", "l", "d", " ", "1", "6", "E">>,
     <<"\n", "X", "c", "o", "d", "e", " ", "1", "6", ".", "2">>}

VersionOutputs ==
    {p \o ma \o se \o mi \o su :
        p \in VersionPrefixes, ma \in VersionMajors, se \in VersionSeps,
        mi \in VersionMinors, su \in VersionSuffixes}

\* the version outputs drawn when the whole pipeline is explored
PipelineVersionOutputs ==
    {<<>>, XcodeLit \o <<"1", "5", ".", "4">>, XcodeLit \o <<"1", "6", ".", "3">>}

(***************************************************************************)
(* Report text.  A section is a sequence of lines; a line records what     *)
(* the template literal of the code puts on it.  The indent counts the     *)
(* two-space units of the indent string (cli.ts:254: indent + "  ").       *)
(***************************************************************************)
Line(kind, indent, mark, label, value) ==
    [kind |-> kind, indent |-> indent, mark |-> mark, label |-> label, value |-> value]

H1(title) == Line("h1", 0, "", title, "")

H2(indent, title) == Line("h2", indent, "", title, "")

H3(title) == Line("h3", 0, "", title, "")

Field(label, value) == Line("field", 0, "", label, value)

Code(text) == Line("code", 0, "", "", text)

Text(label, value) == Line("text", 0, "", label, value)

\* an optional JSON member: <<>> when absent, <<v>> when present
Absent == <<>>

Present(v) == <<v>>

\* `${x}` of an optional number
ShowNumber(opt) == IF opt = Absent THEN "undefined" ELSE ToString(opt[1])

\* `${x}` of an optional string
ShowString(opt) == IF opt = Absent THEN "undefined" ELSE opt[1]

TwoDigits(n) == IF n < 10 THEN "0" \o ToString(n) ELSE ToString(n)

\* Number.prototype.toFixed(2) of a duration given in thousandths: the
\* nearest hundredth, the larger one on a tie
ToFixed2(ms) ==
    LET n == (ms + 5) \div 10
    IN  ToString(n \div 100) \o "." \o TwoDigits(n % 100)

(***************************************************************************)
(* Errors.                                                                 *)
(***************************************************************************)
\* execSync throws "Command failed: <command>"; spawnSync ENOBUFS is the
\* output buffer overrun of cli.ts:211
CommandErrors(cmd) == {"Command failed: " \o cmd, "spawnSync /bin/sh ENOBUFS"}

JsonError == "Unexpected token in JSON"

TypeError == "Cannot read properties of undefined"

RootIdError == "Could not find root ID in Info.plist"

\* cli.ts:278-282
TestErrorSection(msg) ==
    <<H1("Error Processing Test Results"), Text("Failed to process test results", msg)>>

\* cli.ts:399-403
CoverageErrorSection(msg) ==
    <<H1("Error Processing Code Coverage"), Text("Failed to process code coverage", msg)>>

\* the log of external commands: the command line and whether it succeeded
Ran(cmd) == commands' = Append(commands, [cmd |-> cmd, ok |-> TRUE])

Failed(cmd) == commands' = Append(commands, [cmd |-> cmd, ok |-> FALSE])

AfterTests == IF argv.showCodeCoverage THEN "coverage" ELSE "output"

\* the catch block of cli.ts:278-282; details is what testDetails held when
\* the exception was thrown
TestCatchRethrows(msg, details) ==
    /\ testSummary' = TestErrorSection(msg)
    /\ testDetails' = details
    /\ stderr' = Append(stderr, "Error: " \o msg)
    /\ exitCode' = 1
    /\ pc' = "exited"

TestCatchSkipsCoverage(msg, details) ==
    /\ testSummary' = TestErrorSection(msg)
    /\ testDetails' = details
    /\ stderr' = Append(stderr, "Error processing test results: " \o msg)
    /\ exitCode' = exitCode
    /\ pc' = "output"

TestCatch(msg, details) ==
    /\ testSummary' = TestErrorSection(msg)
    /\ testDetails' = details
    /\ stderr' = Append(stderr, "Error processing test results: " \o msg)
    /\ exitCode' = exitCode
    /\ pc' = AfterTests

(***************************************************************************)
(* main of cli.ts: the bundle checks and version detection.                *)
(***************************************************************************)
\* cli.ts:120-130
Main_CheckBundle ==
    /\ pc = "start"
    /\ IF ~argv.pathExists
       THEN /\ stderr' = Append(stderr, "Error: File not found")
            /\ exitCode' = 1
            /\ pc' = "exited"
       ELSE IF ~argv.isXcresultDir
       THEN /\ stderr' = Append(stderr, "Error: Not a valid xcresult bundle")
            /\ exitCode' = 1
            /\ pc' = "exited"
       ELSE /\ pc' = "version"
            /\ UNCHANGED <<stderr, exitCode>>
    /\ UNCHANGED <<argv, xcodeBuildOutput, isXcode16OrHigher, testData, testSummary,
                   testDetails, coverageSummary, targets, onlyTargetSupported,
                   targetIndex, tempDir, commands, stdout>>

VersionFallback == XcodeLit \o <<"1", "5", ".", "0">>

\* cli.ts:132-142
Main_DetectVersion(Outputs) ==
    /\ pc = "version"
    /\ \/ /\ Failed("xcodebuild -version")
          /\ xcodeBuildOutput' = VersionFallback
          /\ stderr' = Append(stderr, "Failed to detect Xcode version. Assuming older version.")
       \/ /\ Ran("xcodebuild -version")
          /\ xcodeBuildOutput' \in Outputs
          /\ stderr' = stderr
    /\ isXcode16OrHigher' = IsXcode16OrHigher(xcodeBuildOutput')
    /\ pc' = "tests"
    /\ UNCHANGED <<argv, testData, testSummary, testDetails, coverageSummary, targets,
                   onlyTargetSupported, targetIndex, tempDir, stdout, exitCode>>

\* cli.ts:163-169 with the total added up from the other counts
ModernSummaryRecomputed(doc) ==
    <<H1("Test Results Summary"),
      Field("Total tests",
            ToString(doc.passedTests[1] + doc.failedTests[1] + doc.skippedTests[1])),
      Field("Passed tests", ShowNumber(doc.passedTests)),
      Field("Failed tests", ShowNumber(doc.failedTests)),
      Field("Skipped tests", ShowNumber(doc.skippedTests)),
      Field("Expected failures", ShowNumber(doc.expectedFailures)),
      Field("Result", ShowString(doc.result))>>

(***************************************************************************)
(* Test results, modern schema (cli.ts:154-191).                           *)
(***************************************************************************)
\* cli.ts:163-169: every count is printed as the document gives it
ModernSummary(doc) ==
    <<H1("Test Results Summary"),
      Field("Total tests", ShowNumber(doc.totalTestCount)),
      Field("Passed tests", ShowNumber(doc.passedTests)),
      Field("Failed tests", ShowNumber(doc.failedTests)),
      Field("Skipped tests", ShowNumber(doc.skippedTests)),
      Field("Expected failures", ShowNumber(doc.expectedFailures)),
      Field("Result", ShowString(doc.result))>>

\* cli.ts:176-180: the loop over the failure map, in key order; a null value
\* throws a TypeError at failure.testName and leaves the lines built so far
RECURSIVE ModernFailures(_, _)
ModernFailures(failures, acc) ==
    IF failures = <<>> THEN [lines |-> acc, thrown |-> FALSE]
    ELSE IF Head(failures) = Absent THEN [lines |-> acc, thrown |-> TRUE]
    ELSE LET f == Head(failures)[1]
         IN  ModernFailures(Tail(failures),
                 acc \o <<H3(f.testName \o " (" \o f.targetName \o ")"),
                          Code(f.failureText \o "\n")>>)

\* cli.ts:183-191
ModernDevice(doc) ==
    IF doc.device = Absent THEN <<>>
    ELSE LET device == doc.device[1]
         IN  <<H2(0, "Test Environment"),
               Field("Device", device.deviceName),
               Field("Model", device.modelName),
               Field("OS Version", device.osVersion),
               Field("Architecture", device.architecture)>>

\* cli.ts:171-191
ModernDetails(doc) ==
    LET start == <<H1("Test Details")>>
        failed ==
            IF doc.testFailures # Absent /\ Len(doc.testFailures[1]) > 0
            THEN ModernFailures(doc.testFailures[1], start \o <<H2(0, "Failed Tests")>>)
            ELSE [lines |-> start, thrown |-> FALSE]
    IN  IF failed.thrown THEN failed
        ELSE [lines |-> failed.lines \o ModernDevice(doc), thrown |-> FALSE]

FailureA == [testName |-> "testA()", targetName |-> "AppTests", failureText |-> "XCTAssertEqual failed"]

FailureB == [testName |-> "testB()", targetName |-> "UITests", failureText |-> "timed out"]

FailureMaps ==
    {Absent, Present(<<>>), Present(<<Present(FailureA)>>),
     Present(<<Present(FailureA), Present(FailureB)>>),
     Present(<<Present(FailureB), Present(FailureA)>>),
     Present(<<Present(FailureA), Absent, Present(FailureB)>>)}

DeviceA == [deviceName |-> "iPhone 15", modelName |-> "iPhone", osVersion |-> "17.4", architecture |-> "arm64"]

\* the modern summary documents whose counts range over Counts, each count
\* reported independently of the others
ModernDocs(Counts, Failures) ==
    [totalTestCount : Counts, passedTests : Counts, failedTests : Counts,
     skippedTests : Counts, expectedFailures : Counts,
     result : {Present("Passed"), Present("Failed")},
     testFailures : Failures,
     device : {Absent, Present(DeviceA)}]

AllModernDocs == ModernDocs({Present(n) : n \in 0..MaxCount}, FailureMaps)

PipelineModernDocs ==
    {d \in ModernDocs({Present(0), Present(MaxCount)}, FailureMaps) :
        /\ d.totalTestCount = Present(MaxCount)
        /\ d.skippedTests = Present(0) /\ d.expectedFailures = Present(0)
        /\ d.passedTests = d.failedTests
        /\ d.device # Absent
        /\ d.result = Present("Failed")}

ModernTestCommand == "xcrun xcresulttool get test-results summary"

\* cli.ts:154-191 with the catch of cli.ts:278-282
Main_ModernTestResults(Docs) ==
    /\ pc = "tests"
    /\ isXcode16OrHigher
    /\ \/ /\ Failed(ModernTestCommand)
          /\ \E msg \in CommandErrors(ModernTestCommand) :
                 /\ TestCatch(msg, testDetails)
                 /\ testData' = testData
       \/ /\ Ran(ModernTestCommand)
          /\ TestCatch(JsonError, testDetails)
          /\ testData' = testData
       \/ /\ Ran(ModernTestCommand)
          /\ \E doc \in Docs :
                 /\ testData' = Present(doc)
                 /\ LET details == ModernDetails(doc)
                    IN  IF details.thrown
                        THEN TestCatch(TypeError, details.lines)
                        ELSE /\ testSummary' = ModernSummary(doc)
                             /\ testDetails' = details.lines
                             /\ pc' = AfterTests
                             /\ UNCHANGED <<stderr, exitCode>>
    /\ UNCHANGED <<argv, xcodeBuildOutput, isXcode16OrHigher, coverageSummary, targets,
                   onlyTargetSupported, targetIndex, tempDir, stdout>>

(***************************************************************************)
(* Test results, legacy schema (cli.ts:193-276).                           *)
(***************************************************************************)
RECURSIVE RunEndNot(_, _, _)
RunEndNot(s, i, c) ==
    IF i <= Len(s) /\ s[i] # c THEN RunEndNot(s, i + 1, c) ELSE i

SkipWs(s, i) == RunEnd(s, i, Whitespace)

RootIdKey == <<"\"", "r", "o", "o", "t", "I", "d", "\"">>

HashKey == <<"\"", "h", "a", "s", "h", "\"">>

Arrow == <<"=", ">">>

\* cli.ts:196: /"rootId"\s*=>\s*{\s*"hash"\s*=>\s*"([^"]+)"/ matches at i.
\* Every \s* is followed by a character that is no whitespace and [^"]+ by a
\* quote, so only the longest runs can match.  The result is the position
\* pair of the captured id, or <<>> when there is no match at i.
RootIdMatchAt(s, i) ==
    LET p1 == SkipWs(s, i + Len(RootIdKey))
        p2 == SkipWs(s, p1 + Len(Arrow))
        p3 == SkipWs(s, p2 + 1)
        p4 == SkipWs(s, p3 + Len(HashKey))
        p5 == SkipWs(s, p4 + Len(Arrow))
        e  == RunEndNot(s, p5 + 1, "\"")
    IN  IF /\ StartsWithAt(s, i, RootIdKey)
           /\ StartsWithAt(s, p1, Arrow)
           /\ StartsWithAt(s, p2, <<"{">>)
           /\ StartsWithAt(s, p3, HashKey)
           /\ StartsWithAt(s, p4, Arrow)
           /\ StartsWithAt(s, p5, <<"\"">>)
           /\ e > p5 + 1
           /\ e <= Len(s)
        THEN <<p5 + 1, e - 1>>
        ELSE <<>>

\* rootIdMatch[1] of the leftmost match, Absent when nothing matches
RootId(s) ==
    LET hits == {i \in 1..Len(s) : RootIdMatchAt(s, i) # <<>>}
    IN  IF hits = {} THEN Absent
        ELSE LET i == CHOOSE k \in hits : \A j \in hits : k <= j
                 m == RootIdMatchAt(s, i)
             IN  Present(SubSeq(s, m[1], m[2]))

\* what `plutil -p Info.plist` may print
PlistOutputs ==
    {pre \o key \o w1 \o ar \o w1 \o <<"{">> \o w2 \o HashKey \o <<" ">> \o Arrow \o <<" ", "\"">> \o id \o q :
        pre \in {<<>>, <<"{", "\n", " ", " ">>},
        key \in {RootIdKey, <<"\"", "r", "o", "o", "t", "\"">>},
        w1 \in {<<>>, <<" ">>},
        ar \in {Arrow, <<"=">>},
        w2 \in {<<>>, <<"\n", " ", " ", "\t">>},
        id \in {<<>>, <<"0", "~", "A", "b">>},
        q \in {<<>>, <<"\"">>}}
    \cup {<<>>}

PipelinePlistOutputs ==
    {<<>>, RootIdKey \o <<" ">> \o Arrow \o <<" ", "{", "\n", " ">> \o HashKey
               \o <<" ">> \o Arrow \o <<" ", "\"", "0", "~", "A", "b", "\"">>}

PlistCommand == "plutil -p Info.plist"

\* cli.ts:195-203
Main_LegacyInfoPlist(Plists) ==
    /\ pc = "tests"
    /\ ~isXcode16OrHigher
    /\ \/ /\ Failed(PlistCommand)
          /\ \E msg \in CommandErrors(PlistCommand) : TestCatch(msg, testDetails)
       \/ /\ Ran(PlistCommand)
          /\ \E infoPlist \in Plists :
                 IF RootId(infoPlist) = Absent
                 THEN TestCatch(RootIdError, testDetails)
                 ELSE /\ pc' = "legacy_summary"
                      /\ UNCHANGED <<testSummary, testDetails, stderr, exitCode>>
    /\ UNCHANGED <<argv, xcodeBuildOutput, isXcode16OrHigher, testData, coverageSummary,
                   targets, onlyTargetSupported, targetIndex, tempDir, stdout>>

\* the document of the root id: actions.testsRef and
\* actions.codeCoverageInfo.archiveRef, each present or not
RootDocs ==
    {[actions |-> Absent]} \cup
    {[actions |-> Present([testsRef |-> t, archiveRef |-> a])] :
        t \in {Absent, Present("0~tests")}, a \in {Absent, Present("0~archive")}}

GetRootCommand == "xcrun xcresulttool get --format json --id <rootId>"

HasTestsRef(summary) == summary.actions # Absent /\ summary.actions[1].testsRef # Absent

\* cli.ts:205-221 and 274-276
Main_LegacySummary ==
    /\ pc = "legacy_summary"
    /\ \/ /\ Failed(GetRootCommand)
          /\ \E msg \in CommandErrors(GetRootCommand) : TestCatch(msg, testDetails)
       \/ /\ Ran(GetRootCommand)
          /\ TestCatch(JsonError, testDetails)
       \/ /\ Ran(GetRootCommand)
          /\ \E summary \in RootDocs :
                 /\ IF HasTestsRef(summary)
                    THEN /\ testSummary' = <<H1("Test Results Summary")>>
                         /\ pc' = "legacy_details"
                    ELSE /\ testSummary' = <<H1("Test Results Summary"),
                                             Text("No test data found in the xcresult bundle.", "")>>
                         /\ pc' = AfterTests
                 /\ UNCHANGED <<testDetails, stderr, exitCode>>
    /\ UNCHANGED <<argv, xcodeBuildOutput, isXcode16OrHigher, testData, coverageSummary,
                   targets, onlyTargetSupported, targetIndex, tempDir, stdout>>

(***************************************************************************)
(* The legacy test tree (interface LegacyTest, cli.ts:65-71) and its walk  *)
(* (processTests, cli.ts:245-270).                                         *)
(***************************************************************************)
Node(name, subtests, testStatus, duration, summaryRef) ==
    [name |-> name, subtests |-> subtests, testStatus |-> testStatus,
     duration |-> duration, summaryRef |-> summaryRef]

\* duration._value: a number (in thousandths), or a string as the JSON may hold
NumberValue(ms) == [type |-> "number", ms |-> ms]

StringValue == [type |-> "string", ms |-> 0]

\* the status glyph of cli.ts:260
StatusEmoji(testStatus) == IF testStatus = "Success" THEN "check" ELSE "cross"

Entry(indent, testStatus, testName, duration) ==
    Line("entry", indent, StatusEmoji(testStatus), testName, duration)

\* cli.ts:264: the indent string and two more spaces
FailureLine(indent) == Line("failure", indent + 1, "", "Failure: Test failed", "")

Emit(acc, lines) == [lines |-> acc.lines \o lines, thrown |-> FALSE]

Throw(acc) == [lines |-> acc.lines, thrown |-> TRUE]

\* cli.ts:256-265: one subtest without subtests
LeafLines(subtest, indent, acc) ==
    LET testName == IF subtest.name = Absent \/ subtest.name[1] = ""
                    THEN "Unknown Test" ELSE subtest.name[1]
        testStatus == IF subtest.testStatus = Absent \/ subtest.testStatus[1] = ""
                      THEN "unknown" ELSE subtest.testStatus[1]
    IN  IF subtest.duration # Absent /\ subtest.duration[1].type = "string"
        THEN Throw(acc)
        ELSE LET duration == IF subtest.duration = Absent THEN "?"
                             ELSE ToFixed2(subtest.duration[1].ms)
             IN  Emit(acc, <<Entry(indent, testStatus, testName, duration)>>
                         \o (IF testStatus # "Success" /\ subtest.summaryRef # Absent
                             THEN <<FailureLine(indent)>> ELSE <<>>))

RECURSIVE ProcessTests(_, _, _)
RECURSIVE ProcessSubtests(_, _, _)

\* cli.ts:246-269: the loop over tests; acc holds testDetails so far
ProcessTests(tests, indent, acc) ==
    IF acc.thrown \/ tests = <<>> THEN acc
    ELSE LET test == Head(tests)
             named == IF test.name # Absent
                      THEN Emit(acc, <<H2(indent, test.name[1])>>) ELSE acc
             walked == IF test.subtests # Absent
                       THEN ProcessSubtests(test.subtests[1], indent, named) ELSE named
         IN  ProcessTests(Tail(tests), indent, walked)

\* cli.ts:252-267: the loop over test.subtests
ProcessSubtests(subtests, indent, acc) ==
    IF acc.thrown \/ subtests = <<>> THEN acc
    ELSE LET subtest == Head(subtests)
             done == IF subtest.subtests # Absent
                     THEN ProcessTests(<<subtest>>, indent + 1, acc)
                     ELSE LeafLines(subtest, indent, acc)
         IN  ProcessSubtests(Tail(subtests), indent, done)

\* cli.ts:241-273
LegacyDetails(doc) ==
    LET start == [lines |-> <<H1("Test Details")>>, thrown |-> FALSE]
    IN  IF doc.tests # Absent /\ Len(doc.tests[1]) > 0
        THEN ProcessTests(doc.tests[1], 0, start)
        ELSE start

\* cli.ts:233-239 throws a TypeError when a member it reads through is absent
SummaryThrows(doc) ==
    /\ doc.summaries # Absent /\ Len(doc.summaries[1]) > 0
    /\ LET testSummaryData == doc.summaries[1][1]
       IN  \/ testSummaryData.totals = Absent
           \/ testSummaryData.totals[1].testsCount = Absent
           \/ testSummaryData.totals[1].failedCount = Absent
           \/ testSummaryData.totals[1].unexpectedFailureCount = Absent
           \/ testSummaryData.duration = Absent

\* cli.ts:233-239 with a zero for each count the legacy document lacks
LegacySummaryLinesZeroFilled(doc) ==
    IF doc.summaries # Absent /\ Len(doc.summaries[1]) > 0
    THEN LET testSummaryData == doc.summaries[1][1]
             totals == testSummaryData.totals[1]
         IN  <<Field("Total tests", ShowNumber(totals.testsCount)),
               Field("Passed tests", "0"),
               Field("Failed tests", ShowNumber(totals.failedCount)),
               Field("Skipped tests", "0"),
               Field("Expected failures", "0"),
               Field("Unexpected failures", ShowNumber(totals.unexpectedFailureCount)),
               Field("Test duration", ToFixed2(testSummaryData.duration[1]) \o " seconds")>>
    ELSE <<>>

\* cli.ts:233-239
LegacySummaryLines(doc) ==
    IF doc.summaries # Absent /\ Len(doc.summaries[1]) > 0
    THEN LET testSummaryData == doc.summaries[1][1]
             totals == testSummaryData.totals[1]
         IN  <<Field("Total tests", ShowNumber(totals.testsCount)),
               Field("Failed tests", ShowNumber(totals.failedCount)),
               Field("Unexpected failures", ShowNumber(totals.unexpectedFailureCount)),
               Field("Test duration", ToFixed2(testSummaryData.duration[1]) \o " seconds")>>
    ELSE <<>>

GetTestsCommand == "xcrun xcresulttool get --format json --id <testsRef>"

\* cli.ts:223-273 with the catch of cli.ts:278-282
Main_LegacyTestDetails(Docs) ==
    /\ pc = "legacy_details"
    /\ \/ /\ Failed(GetTestsCommand)
          /\ \E msg \in CommandErrors(GetTestsCommand) :
                 /\ TestCatch(msg, testDetails)
                 /\ testData' = testData
       \/ /\ Ran(GetTestsCommand)
          /\ TestCatch(JsonError, testDetails)
          /\ testData' = testData
       \/ /\ Ran(GetTestsCommand)
          /\ \E doc \in Docs :
                 /\ testData' = Present(doc)
                 /\ IF SummaryThrows(doc)
                    THEN TestCatch(TypeError, testDetails)
                    ELSE LET details == LegacyDetails(doc)
                         IN  IF details.thrown
                             THEN TestCatch(TypeError, details.lines)
                             ELSE /\ testSummary' = testSummary \o LegacySummaryLines(doc)
                                  /\ testDetails' = details.lines
                                  /\ pc' = AfterTests
                                  /\ UNCHANGED <<stderr, exitCode>>
    /\ UNCHANGED <<argv, xcodeBuildOutput, isXcode16OrHigher, coverageSummary, targets,
                   onlyTargetSupported, targetIndex, tempDir, stdout>>

(***************************************************************************)
(* The documents the legacy test-details command may return.               *)
(***************************************************************************)
NamePlaceholder == Present("")

LeafPass == Node(NamePlaceholder, Absent, Present("Success"), Present(NumberValue(1234)), Absent)

LeafFail == Node(NamePlaceholder, Absent, Present("Failure"), Present(NumberValue(250)), Present("0~ref"))

LeafFailNoRef == Node(NamePlaceholder, Absent, Present("Failure"), Absent, Absent)

LeafBare == Node(Absent, Absent, Absent, Absent, Absent)

LeafMalformed == Node(NamePlaceholder, Absent, Present("Success"), Present(StringValue), Absent)

LeafKinds == {LeafPass, LeafFail, LeafFailNoRef, LeafBare, LeafMalformed}

SuitePlain(children) == Node(NamePlaceholder, Present(children), Absent, Absent, Absent)

SuiteWithLeafFields(children) ==
    Node(NamePlaceholder, Present(children), Present("Failure"), Present(NumberValue(250)), Present("0~ref"))

SuiteUnnamed(children) == Node(Absent, Present(children), Absent, Absent, Absent)

SuitesOver(children) ==
    {SuitePlain(children), SuiteWithLeafFields(children), SuiteUnnamed(children)}

RECURSIVE TreesOf(_)
RECURSIVE ForestsOf(_)

\* the trees of exactly n nodes
TreesOf(n) ==
    IF n = 1 THEN LeafKinds \cup SuitesOver(<<>>)
    ELSE UNION {SuitesOver(f) : f \in ForestsOf(n - 1)}

\* the forests of exactly n nodes
ForestsOf(n) ==
    IF n = 0 THEN {<<>>}
    ELSE UNION {{<<t>> \o f : t \in TreesOf(k), f \in ForestsOf(n - k)} : k \in 1..n}

\* every named node is named after its place in the forest: "2", "2.1", ...
RECURSIVE Relabel(_, _)
Relabel(forest, prefix) ==
    [i \in 1..Len(forest) |->
        LET t == forest[i]
            path == prefix \o ToString(i)
        IN  [t EXCEPT !.name = IF t.name = Absent THEN Absent ELSE Present(path),
                      !.subtests = IF t.subtests = Absent THEN Absent
                                   ELSE Present(Relabel(t.subtests[1], path \o "."))]]

\* the forests of at most n nodes
ForestsUpTo(n) == {Relabel(f, "") : f \in UNION {ForestsOf(k) : k \in 0..n}}

Totals(testsCount, failedCount, unexpectedFailureCount) ==
    [testsCount |-> testsCount, failedCount |-> failedCount,
     unexpectedFailureCount |-> unexpectedFailureCount]

OptionalCounts == {Absent} \cup {Present(n) : n \in 0..MaxCount}

Durations == {Absent, Present(0), Present(4), Present(1995), Present(61234)}

AllSummaryData ==
    {[totals |-> t, duration |-> d] :
        t \in {Absent} \cup {Present(Totals(a, b, c)) :
                   a \in OptionalCounts, b \in OptionalCounts, c \in OptionalCounts},
        d \in Durations}

GoodSummaryData ==
    [totals |-> Present(Totals(Present(MaxCount), Present(1), Present(0))),
     duration |-> Present(1995)]

SmallForest ==
    Relabel(<<SuitePlain(<<LeafPass, SuitePlain(<<LeafFail>>), LeafBare>>)>>, "")

LegacyDoc(summaries, tests) == [summaries |-> summaries, tests |-> tests]

\* documents that vary in their summaries
SummaryDocs ==
    {LegacyDoc(s, t) :
        s \in {Absent, Present(<<>>)} \cup {Present(<<sd>>) : sd \in AllSummaryData},
        t \in {Absent, Present(<<>>), Present(SmallForest)}}

\* larger forests: nested suites between leaves, several top-level nodes,
\* suites without leaves, a top-level leaf
DeepForests ==
    {Relabel(f, "") : f \in
        {<<SuitePlain(<<LeafPass, SuitePlain(<<LeafFail>>), LeafBare>>)>>,
         <<SuitePlain(<<SuitePlain(<<LeafPass>>), LeafFail>>)>>,
         <<SuitePlain(<<SuitePlain(<<SuitePlain(<<LeafPass, LeafFail>>)>>), LeafPass>>)>>,
         <<SuitePlain(<<LeafPass, LeafFail>>), SuitePlain(<<>>),
           SuitePlain(<<SuitePlain(<<>>), LeafFailNoRef>>)>>,
         <<LeafPass, SuitePlain(<<LeafFail, LeafPass>>)>>,
         <<SuiteUnnamed(<<LeafPass, SuiteWithLeafFields(<<LeafFail>>)>>)>>}}

AllForests == ForestsUpTo(MaxNodes) \cup DeepForests

\* documents that vary in their tests
TreeDocs == {LegacyDoc(Present(<<GoodSummaryData>>), Present(f)) : f \in AllForests}

PipelineLegacyDocs ==
    {LegacyDoc(Present(<<GoodSummaryData>>), Present(SmallForest)),
     LegacyDoc(Present(<<>>), Absent),
     LegacyDoc(Present(<<[totals |-> Absent, duration |-> Absent]>>), Present(SmallForest)),
     LegacyDoc(Present(<<GoodSummaryData>>),
               Present(Relabel(<<SuitePlain(<<LeafPass, LeafMalformed>>)>>, "")))}

(***************************************************************************)
(* Code coverage, modern schema (cli.ts:289-350).                          *)
(***************************************************************************)
\* String.prototype.trim
RECURSIVE TrimEnd(_)
TrimEnd(s) ==
    IF s # <<>> /\ s[Len(s)] \in Whitespace THEN TrimEnd(SubSeq(s, 1, Len(s) - 1)) ELSE s

Trim(s) == TrimEnd(SubSeq(s, RunEnd(s, 1, Whitespace), Len(s)))

\* String.prototype.split('\n')
RECURSIVE Split(_)
Split(s) ==
    LET e == RunEndNot(s, 1, "\n")
    IN  IF e > Len(s) THEN <<s>>
        ELSE <<SubSeq(s, 1, e - 1)>> \o Split(SubSeq(s, e + 1, Len(s)))

\* the characters "." does not match
LineTerminators == {"\n", "\r"}

\* cli.ts:326: \s+\d+\s+\d+\.\d+%$ matches from position j to the end of the
\* line.  Each run is followed by a character outside its class, so only the
\* longest runs can match.
TargetSuffixMatches(s, j) ==
    LET w1 == RunEnd(s, j, Whitespace)
        d1 == RunEnd(s, w1, Digits)
        w2 == RunEnd(s, d1, Whitespace)
        d2 == RunEnd(s, w2, Digits)
        d3 == RunEnd(s, d2 + 1, Digits)
    IN  /\ w1 > j /\ d1 > w1 /\ w2 > d1 /\ d2 > w2
        /\ d2 <= Len(s) /\ s[d2] = "."
        /\ d3 > d2 + 1
        /\ d3 = Len(s) /\ s[d3] = "%"

\* cli.ts:326: /^[0-9A-F]+ (.+?)\s+\d+\s+\d+\.\d+%$/: the captured name, the
\* shortest that lets the rest match (.+? is lazy), Absent when the line does
\* not match
TargetMatch(s) ==
    LET h == RunEnd(s, 1, HexDigits)
        lens == {n \in 1..(Len(s) - h) :
                    /\ \A k \in (h + 1)..(h + n) : s[k] \notin LineTerminators
                    /\ TargetSuffixMatches(s, h + n + 1)}
    IN  IF h > 1 /\ h <= Len(s) /\ s[h] = " " /\ lens # {}
        THEN LET n == CHOOSE m \in lens : \A o \in lens : m <= o
             IN  Present(SubSeq(s, h + 1, h + n))
        ELSE Absent

TargetLineApp == <<"A", "1", " ", "A", "p", "p", " ", "1", "2", " ", "5", "0", ".", "0", "0", "%">>

TargetLineKit == <<"0", "F", " ", "M", "y", " ", "K", "i", "t", ".", "f", "r", "a", "m", "e", "w", "o", "r", "k", " ", " ", " ", "3", " ", " ", "7", ".", "5", "%">>

TargetLineBlankName == <<"A", "1", " ", " ", " ", "1", "2", " ", "5", "0", ".", "0", "0", "%">>

TargetLineHeader == <<"I", "D", " ", "N", "a", "m", "e", " ", "#", " ", "S", "o", "u", "r", "c", "e", " ", "F", "i", "l", "e", "s", " ", "C", "o", "v", "e", "r", "a", "g", "e">>

TargetLineLowerId == <<"a", "1", " ", "A", "p", "p", " ", "1", "2", " ", "5", "0", ".", "0", "0", "%">>

TargetLineNoPercent == <<"A", "1", " ", "A", "p", "p", " ", "1", "2", " ", "5", "0", ".", "0", "0">>

TargetLineIndented == <<" ", "B", "2", " ", "L", "i", "b", " ", "1", " ", "0", ".", "0", "%">>

TargetLineEmpty == <<>>

TargetLines ==
    {TargetLineApp, TargetLineKit, TargetLineBlankName, TargetLineHeader, TargetLineLowerId,
     TargetLineNoPercent, TargetLineIndented, TargetLineEmpty}

RECURSIVE SeqsUpTo(_, _)
SeqsUpTo(S, n) ==
    IF n = 0 THEN {<<>>}
    ELSE SeqsUpTo(S, n - 1) \cup {Append(q, x) : q \in {r \in SeqsUpTo(S, n - 1) : Len(r) = n - 1}, x \in S}

\* the output of the target list command: every line ends with a newline
JoinLines(lines) == Concat([i \in 1..Len(lines) |-> lines[i] \o <<"\n">>])

TargetLineLib == <<"B", "2", " ", "L", "i", "b", " ", "1", " ", "0", ".", "0", "%">>

\* longer lists: three targets, and targets between lines that are skipped
LongTargetLists ==
    {<<TargetLineApp, TargetLineKit, TargetLineLib>>,
     <<TargetLineApp, TargetLineHeader, TargetLineKit>>,
     <<TargetLineApp, TargetLineBlankName, TargetLineKit, TargetLineEmpty, TargetLineLib>>,
     <<TargetLineHeader, TargetLineApp, TargetLineLowerId, TargetLineKit,
       TargetLineNoPercent, TargetLineLib>>}

AllTargetsOutputs ==
    {JoinLines(ls) : ls \in SeqsUpTo(TargetLines, MaxTargets) \cup LongTargetLists}

PipelineTargetsOutputs ==
    {JoinLines(<<>>), JoinLines(<<TargetLineApp, TargetLineHeader, TargetLineKit>>)}

\* the catch block of cli.ts:399-403
CoverageCatch(msg) ==
    /\ coverageSummary' = CoverageErrorSection(msg)
    /\ stderr' = Append(stderr, "Error processing code coverage: " \o msg)
    /\ pc' = "output"

CoverageOutputs == {"", "App.app 50.00% (1/2)\n"}

CoverageCommand == "xcrun xccov view --report <bundle>"

\* cli.ts:289-300
Main_CoverageReport ==
    /\ pc = "coverage"
    /\ isXcode16OrHigher
    /\ \/ /\ Failed(CoverageCommand)
          /\ \E msg \in CommandErrors(CoverageCommand) : CoverageCatch(msg)
       \/ /\ Ran(CoverageCommand)
          /\ \E coverageOutput \in CoverageOutputs :
                 /\ coverageSummary' = <<H1("Code Coverage Summary"), Code(coverageOutput)>>
                 /\ pc' = "coverage_targets"
                 /\ stderr' = stderr
    /\ UNCHANGED <<argv, xcodeBuildOutput, isXcode16OrHigher, testData, testSummary,
                   testDetails, targets, onlyTargetSupported, targetIndex, tempDir,
                   stdout, exitCode>>

TargetsCommand == "xcrun xccov view --report --only-targets <bundle>"

\* cli.ts:302-310; split never returns an empty list, so the heading of
\* cli.ts:310 is always added
Main_CoverageTargets(Outputs) ==
    /\ pc = "coverage_targets"
    /\ \/ /\ Failed(TargetsCommand)
          /\ \E msg \in CommandErrors(TargetsCommand) : CoverageCatch(msg)
          /\ targets' = targets
       \/ /\ Ran(TargetsCommand)
          /\ \E targetsOutput \in Outputs :
                 /\ targets' = Split(Trim(targetsOutput))
                 /\ coverageSummary' = Append(coverageSummary, H2(0, "Target Coverage Details"))
                 /\ pc' = "coverage_probe"
                 /\ stderr' = stderr
    /\ UNCHANGED <<argv, xcodeBuildOutput, isXcode16OrHigher, testData, testSummary,
                   testDetails, onlyTargetSupported, targetIndex, tempDir, stdout, exitCode>>

ProbeCommand == "xcrun xccov view --help"

\* cli.ts:312-321 with an empty catch block
Main_CoverageProbeIgnoresFailure ==
    /\ pc = "coverage_probe"
    /\ \/ Failed(ProbeCommand)
       \/ Ran(ProbeCommand)
    /\ onlyTargetSupported' = TRUE
    /\ targetIndex' = 1
    /\ pc' = "coverage_loop"
    /\ UNCHANGED <<argv, xcodeBuildOutput, isXcode16OrHigher, testData, testSummary,
                   testDetails, coverageSummary, targets, tempDir, stdout, stderr, exitCode>>

\* cli.ts:312-321
Main_CoverageProbe ==
    /\ pc = "coverage_probe"
    /\ \/ /\ Failed(ProbeCommand)
          /\ onlyTargetSupported' = FALSE
       \/ /\ Ran(ProbeCommand)
          /\ onlyTargetSupported' = TRUE
    /\ targetIndex' = 1
    /\ pc' = "coverage_loop"
    /\ UNCHANGED <<argv, xcodeBuildOutput, isXcode16OrHigher, testData, testSummary,
                   testDetails, coverageSummary, targets, tempDir, stdout, stderr, exitCode>>

TargetCommand(targetName) == "xcrun xccov view --report --only-target " \o targetName

TargetDetail(targetName) == "detail of " \o targetName \o "\n"

\* cli.ts:347
FallbackBlock(targetLine) == Code(Str(targetLine) \o "\n")

\* cli.ts:343
TargetErrorLine(msg) == Text("Error getting details for target", msg)

\* the catch block of cli.ts:341-344; section is coverageSummary with the
\* heading of the target
TargetCatchRethrows(section, msg) == coverageSummary' = CoverageErrorSection(msg)

TargetCatch(section, msg) == coverageSummary' = Append(section, TargetErrorLine(msg))

\* cli.ts:326-330 without the test of cli.ts:330
TargetNameUnchecked(targetLine) ==
    LET targetMatch == TargetMatch(targetLine)
    IN  IF targetMatch = Absent THEN Absent
        ELSE Present(Str(Trim(targetMatch[1])))

\* cli.ts:326-330: the trimmed name of a line that gets a subsection, Absent
\* for a line that is skipped
TargetName(targetLine) ==
    LET targetMatch == TargetMatch(targetLine)
    IN  IF targetMatch = Absent \/ Trim(targetMatch[1]) = <<>> THEN Absent
        ELSE Present(Str(Trim(targetMatch[1])))

\* cli.ts:323-349: one iteration of the loop over targets
Main_CoverageTarget ==
    /\ pc = "coverage_loop"
    /\ targetIndex <= Len(targets)
    /\ LET targetLine == targets[targetIndex]
           name == TargetName(targetLine)
       IN  IF name = Absent
           THEN UNCHANGED <<coverageSummary, commands>>
           ELSE IF onlyTargetSupported
           THEN \/ /\ Failed(TargetCommand(name[1]))
                   /\ \E msg \in CommandErrors(TargetCommand(name[1])) :
                          TargetCatch(Append(coverageSummary, H3(name[1])), msg)
                \/ /\ Ran(TargetCommand(name[1]))
                   /\ coverageSummary' =
                          coverageSummary \o <<H3(name[1]), Code(TargetDetail(name[1]))>>
           ELSE /\ coverageSummary' =
                       coverageSummary \o <<H3(name[1]), FallbackBlock(targetLine)>>
                /\ commands' = commands
    /\ targetIndex' = targetIndex + 1
    /\ pc' = IF targetIndex = Len(targets) THEN "output" ELSE "coverage_loop"
    /\ UNCHANGED <<argv, xcodeBuildOutput, isXcode16OrHigher, testData, testSummary,
                   testDetails, targets, onlyTargetSupported, tempDir, stdout, stderr,
                   exitCode>>

(***************************************************************************)
(* Code coverage, legacy schema (cli.ts:351-398).                          *)
(***************************************************************************)
\* cli.ts:354-361
Main_CoverageInfoPlist(Plists) ==
    /\ pc = "coverage"
    /\ ~isXcode16OrHigher
    /\ \/ /\ Failed(PlistCommand)
          /\ \E msg \in CommandErrors(PlistCommand) : CoverageCatch(msg)
       \/ /\ Ran(PlistCommand)
          /\ \E infoPlist \in Plists :
                 IF RootId(infoPlist) = Absent
                 THEN CoverageCatch(RootIdError)
                 ELSE /\ pc' = "coverage_root"
                      /\ UNCHANGED <<coverageSummary, stderr>>
    /\ UNCHANGED <<argv, xcodeBuildOutput, isXcode16OrHigher, testData, testSummary,
                   testDetails, targets, onlyTargetSupported, targetIndex, tempDir,
                   stdout, exitCode>>

HasArchiveRef(summary) == summary.actions # Absent /\ summary.actions[1].archiveRef # Absent

\* cli.ts:363-370 and 394-397
Main_CoverageRoot ==
    /\ pc = "coverage_root"
    /\ \/ /\ Failed(GetRootCommand)
          /\ \E msg \in CommandErrors(GetRootCommand) : CoverageCatch(msg)
       \/ /\ Ran(GetRootCommand)
          /\ CoverageCatch(JsonError)
       \/ /\ Ran(GetRootCommand)
          /\ \E summary \in RootDocs :
                 /\ IF HasArchiveRef(summary)
                    THEN /\ pc' = "coverage_mkdtemp"
                         /\ coverageSummary' = coverageSummary
                    ELSE /\ pc' = "output"
                         /\ coverageSummary' =
                                <<H1("Code Coverage Summary"),
                                  Text("No code coverage data found in the xcresult bundle.", "")>>
                 /\ stderr' = stderr
    /\ UNCHANGED <<argv, xcodeBuildOutput, isXcode16OrHigher, testData, testSummary,
                   testDetails, targets, onlyTargetSupported, targetIndex, tempDir,
                   stdout, exitCode>>

MkdtempError == "ENOENT: no such file or directory, mkdtemp"

\* cli.ts:372-374: fs.mkdtempSync creates the scratch directory or throws
Main_CoverageMkdtemp ==
    /\ pc = "coverage_mkdtemp"
    /\ \/ /\ CoverageCatch(MkdtempError)
          /\ tempDir' = tempDir
       \/ /\ tempDir' = "exists"
          /\ pc' = "coverage_export"
          /\ UNCHANGED <<coverageSummary, stderr>>
    /\ UNCHANGED <<argv, xcodeBuildOutput, isXcode16OrHigher, testData, testSummary,
                   testDetails, targets, onlyTargetSupported, targetIndex, commands,
                   stdout, exitCode>>

ExportCommand == "xcrun xcresulttool export --type directory --id <archiveRef>"

\* cli.ts:376-380
Main_CoverageExport ==
    /\ pc = "coverage_export"
    /\ \/ /\ Failed(ExportCommand)
          /\ \E msg \in CommandErrors(ExportCommand) : CoverageCatch(msg)
       \/ /\ Ran(ExportCommand)
          /\ pc' = "coverage_legacy_report"
          /\ UNCHANGED <<coverageSummary, stderr>>
    /\ UNCHANGED <<argv, xcodeBuildOutput, isXcode16OrHigher, testData, testSummary,
                   testDetails, targets, onlyTargetSupported, targetIndex, tempDir,
                   stdout, exitCode>>

LegacyCoverageCommand == "xcrun xccov view --report <tempDir>"

\* cli.ts:382-393: the report, then fs.rmdirSync of the scratch directory
Main_CoverageLegacyReport ==
    /\ pc = "coverage_legacy_report"
    /\ \/ /\ Failed(LegacyCoverageCommand)
          /\ \E msg \in CommandErrors(LegacyCoverageCommand) : CoverageCatch(msg)
          /\ tempDir' = tempDir
       \/ /\ Ran(LegacyCoverageCommand)
          /\ \E coverageOutput \in CoverageOutputs :
                 /\ coverageSummary' = <<H1("Code Coverage Summary"), Code(coverageOutput)>>
                 /\ tempDir' = "removed"
                 /\ pc' = "output"
                 /\ stderr' = stderr
    /\ UNCHANGED <<argv, xcodeBuildOutput, isXcode16OrHigher, testData, testSummary,
                   testDetails, targets, onlyTargetSupported, targetIndex, stdout, exitCode>>

(***************************************************************************)
(* The report (cli.ts:406-428).                                            *)
(***************************************************************************)
Rule == <<Line("rule", 0, "", "=", "80")>>

\* cli.ts:407-411
FullReport ==
    <<testSummary, testDetails>>
        \o (IF argv.showCodeCoverage THEN <<coverageSummary>> ELSE <<>>)

\* cli.ts:413-428; main then returns and the process ends with status 0
Main_Output ==
    /\ pc = "output"
    /\ stdout' = IF argv.githubAction THEN FullReport
                 ELSE <<Rule, testSummary, Rule, testDetails>>
                          \o (IF argv.showCodeCoverage
                              THEN <<Rule, coverageSummary, Rule>> ELSE <<>>)
    /\ exitCode' = 0
    /\ pc' = "done"
    /\ UNCHANGED <<argv, xcodeBuildOutput, isXcode16OrHigher, testData, testSummary,
                   testDetails, coverageSummary, targets, onlyTargetSupported,
                   targetIndex, tempDir, commands, stderr>>

(***************************************************************************)
(* The whole run of cli.ts.                                                *)
(***************************************************************************)
Args ==
    [pathExists : BOOLEAN, isXcresultDir : BOOLEAN, showPassedTests : BOOLEAN,
     showCodeCoverage : BOOLEAN, githubAction : BOOLEAN]

Blank ==
    /\ xcodeBuildOutput = <<>>
    /\ isXcode16OrHigher = FALSE
    /\ testData = Absent
    /\ testSummary = <<>>
    /\ testDetails = <<>>
    /\ coverageSummary = <<>>
    /\ targets = <<>>
    /\ onlyTargetSupported = TRUE
    /\ targetIndex = 1
    /\ tempDir = "none"
    /\ commands = <<>>
    /\ stdout = <<>>
    /\ stderr = <<>>
    /\ exitCode = -1

Init ==
    /\ pc = "start"
    /\ argv \in Args
    /\ Blank

Next ==
    \/ Main_CheckBundle
    \/ Main_DetectVersion(PipelineVersionOutputs)
    \/ Main_ModernTestResults(PipelineModernDocs)
    \/ Main_LegacyInfoPlist(PipelinePlistOutputs)
    \/ Main_LegacySummary
    \/ Main_LegacyTestDetails(PipelineLegacyDocs)
    \/ Main_CoverageReport
    \/ Main_CoverageTargets(PipelineTargetsOutputs)
    \/ Main_CoverageProbe
    \/ Main_CoverageTarget
    \/ Main_CoverageInfoPlist(PipelinePlistOutputs)
    \/ Main_CoverageRoot
    \/ Main_CoverageMkdtemp
    \/ Main_CoverageExport
    \/ Main_CoverageLegacyReport
    \/ Main_Output

Spec == Init /\ [][Next]_vars

(***************************************************************************)
(* Properties of the whole run.                                            *)
(***************************************************************************)
TestPcs == {"tests", "legacy_summary", "legacy_details"}

CoveragePcs ==
    {"coverage", "coverage_targets", "coverage_probe", "coverage_loop", "coverage_root",
     "coverage_mkdtemp", "coverage_export", "coverage_legacy_report"}

IsTestError == testSummary # <<>> /\ testSummary[1] = H1("Error Processing Test Results")

IsCoverageError ==
    coverageSummary # <<>> /\ coverageSummary[1] = H1("Error Processing Code Coverage")

\* the commands that only test-result processing, respectively only coverage
\* processing, issues; plutil and the root document are fetched by both
CommandsOf(cmd) == {i \in 1..Len(commands) : commands[i].cmd = cmd}

CoverageStarted ==
    IF isXcode16OrHigher THEN CommandsOf(CoverageCommand) # {}
    ELSE Cardinality(CommandsOf(PlistCommand)) = 2

\* the messages an exception caught by one of the two catch blocks may carry
CaughtMessages ==
    UNION {CommandErrors(c) :
              c \in {ModernTestCommand, PlistCommand, GetRootCommand, GetTestsCommand,
                     CoverageCommand, TargetsCommand, ExportCommand, LegacyCoverageCommand}}
        \cup {JsonError, TypeError, RootIdError, MkdtempError}

\* C1: in legacy coverage processing the scratch directory, once created, is
\* removed on every exit path: no run ends with the directory still on disk.
C1_ScratchDirRemovedAtEnd ==
    pc \in {"output", "done", "exited"} => tempDir # "exists"

\* C2: after version detection the two pipelines are independent: whatever
\* happened in test-result processing, its end hands over to coverage
\* processing when showCodeCoverage is set (and coverage processing has run its
\* first command by the time the report is printed); no step of coverage
\* processing, failing or not, changes the test summary or the test details;
\* and the report printed holds both as they were.
C2_PipelinesIndependent ==
    [][/\ (pc \in TestPcs /\ pc' \notin TestPcs) =>
              pc' = IF argv.showCodeCoverage THEN "coverage" ELSE "output"
       /\ pc \in CoveragePcs =>
              /\ argv.showCodeCoverage
              /\ testSummary' = testSummary
              /\ testDetails' = testDetails
       /\ pc = "output" =>
              /\ argv.showCodeCoverage => CoverageStarted
              /\ \E i \in 1..(Len(stdout') - 1) :
                     stdout'[i] = testSummary /\ stdout'[i + 1] \in {testDetails, Rule}
              /\ \E i \in 1..Len(stdout') : stdout'[i] = testDetails]_vars

\* a run in which test-result processing failed, coverage processing then ran
\* and failed too, and the report still holds the test sections
C2_Witness ==
    /\ pc = "done"
    /\ argv.showCodeCoverage
    /\ IsTestError
    /\ testDetails # <<>>
    /\ IsCoverageError
    /\ CoverageStarted

Part000_CheckBundle ==
    /\ pc = "wrapper_start"
    /\ IF ~argv.pathExists
       THEN /\ stderr' = Append(stderr, "Error: File not found")
            /\ exitCode' = 1
            /\ pc' = "exited"
       ELSE IF ~argv.isXcresultDir
       THEN /\ stderr' = Append(stderr, "Error: Not a valid xcresult bundle")
            /\ exitCode' = 1
            /\ pc' = "exited"
       ELSE /\ pc' = "wrapper_version"
            /\ UNCHANGED <<stderr, exitCode>>
    /\ UNCHANGED <<argv, xcodeBuildOutput, isXcode16OrHigher, testData, testSummary,
                   testDetails, coverageSummary, targets, onlyTargetSupported,
                   targetIndex, tempDir, commands, stdout>>

\* the messages @actions/exec rejects with
ExecErrors(cmd) ==
    {"The process '" \o cmd \o "' failed with exit code 1",
     "Unable to locate executable file: " \o cmd}

\* part_000:122-128: the catch block around the whole of main
Part000_Catch(msg) ==
    /\ stderr' = Append(stderr, "Error: " \o msg)
    /\ exitCode' = 1
    /\ pc' = "exited"

\* part_000:70-82: exec.exec rejects when the command cannot be run or ends
\* with a non-zero status, and nothing catches that before part_000:122
Part000_DetectVersion(Outputs) ==
    /\ pc = "wrapper_version"
    /\ \/ /\ Failed("xcodebuild -version")
          /\ \E msg \in ExecErrors("xcodebuild -version") : Part000_Catch(msg)
          /\ UNCHANGED <<xcodeBuildOutput, isXcode16OrHigher>>
       \/ /\ Ran("xcodebuild -version")
          /\ xcodeBuildOutput' \in Outputs
          /\ isXcode16OrHigher' = IsXcode16OrHigher(xcodeBuildOutput')
          /\ pc' = "wrapper_format"
          /\ UNCHANGED <<stderr, exitCode>>
    /\ UNCHANGED <<argv, testData, testSummary, testDetails, coverageSummary, targets,
                   onlyTargetSupported, targetIndex, tempDir, stdout>>

\* part_000:92-105: the patched exec rewrites `xcresulttool get` for Xcode 16
FormatterCommand ==
    IF isXcode16OrHigher THEN "xcrun xcresulttool get object --legacy"
    ELSE "xcrun xcresulttool get"

\* part_000:111-121: Formatter.format returns a report, which is printed, or
\* throws into the catch block
Part000_Format ==
    /\ pc = "wrapper_format"
    /\ \/ /\ Failed(FormatterCommand)
          /\ \E msg \in ExecErrors(FormatterCommand) : Part000_Catch(msg)
          /\ stdout' = stdout
       \/ /\ Ran(FormatterCommand)
          /\ stdout' = <<<<Text("reportSummary", "")>>, <<Text("reportDetail", "")>>>>
          /\ exitCode' = 0
          /\ pc' = "done"
          /\ stderr' = stderr
    /\ UNCHANGED <<argv, xcodeBuildOutput, isXcode16OrHigher, testData, testSummary,
                   testDetails, coverageSummary, targets, onlyTargetSupported,
                   targetIndex, tempDir>>

Part000_Init ==
    /\ pc = "wrapper_start"
    /\ argv \in Args
    /\ Blank

Part000_Next ==
    \/ Part000_CheckBundle
    \/ Part000_DetectVersion(VersionOutputs)
    \/ Part000_Format

SpecPart000 == Part000_Init /\ [][Part000_Next]_vars

\* the claimed classification, stated on the text itself: somewhere the
\* output reads "Xcode ", a run of digits, a dot and a digit, and the digits
\* of the first such place are a number of at least 16
ReadsAsVersionAt(s, i, j) ==
    /\ i + 6 < j /\ j < Len(s)
    /\ SubSeq(s, i, i + 5) = XcodeLit
    /\ \A k \in (i + 6)..(j - 1) : s[k] \in Digits
    /\ s[j] = "."
    /\ s[j + 1] \in Digits

ClaimedModern(s) ==
    \E i \in 1..Len(s), j \in 1..Len(s) :
        /\ ReadsAsVersionAt(s, i, j)
        /\ \A i2 \in 1..(i - 1), j2 \in 1..Len(s) : ~ReadsAsVersionAt(s, i2, j2)
        /\ ParseInt(SubSeq(s, i + 6, j - 1)) >= 16

VersionCommandRanLast ==
    commands # <<>> /\ commands[Len(commands)].cmd = "xcodebuild -version"

\* C4: version detection never fails the run: whatever the version command
\* did, failing included, the run goes on to the parser, and the schema is
\* modern exactly when the output reads as an Xcode version of major >= 16.
C4_VersionDetectionNeverFails ==
    VersionCommandRanLast =>
        /\ exitCode # 1
        /\ pc \notin {"exited"}
        /\ isXcode16OrHigher = ClaimedModern(xcodeBuildOutput)


(***************************************************************************)
(* The legacy test listing: runs of cli.ts on a valid bundle under an      *)
(* Xcode older than 16, without coverage, whose test document varies over  *)
(* the forests of at most MaxNodes nodes and some larger ones.             *)
(***************************************************************************)
TreeArgs ==
    {a \in Args : a.pathExists /\ a.isXcresultDir /\ ~a.showCodeCoverage /\ a.githubAction}

TreeVersionOutputs == {XcodeLit \o <<"1", "5", ".", "4">>}

TreeInit ==
    /\ pc = "start"
    /\ argv \in TreeArgs
    /\ Blank

TreeNext ==
    \/ Main_CheckBundle
    \/ Main_DetectVersion(TreeVersionOutputs)
    \/ Main_LegacyInfoPlist(PipelinePlistOutputs)
    \/ Main_LegacySummary
    \/ Main_LegacyTestDetails(TreeDocs)
    \/ Main_Output

SpecTree == TreeInit /\ [][TreeNext]_vars

\* the walk has gone through the whole tests forest of a legacy document
TreeRendered ==
    /\ pc \in {"output", "done"}
    /\ ~isXcode16OrHigher
    /\ ~IsTestError
    /\ testData # Absent
    /\ testData[1].tests # Absent

\* the named leaves of a forest that lie inside a suite, each with its
\* status and the number of suites around it
RECURSIVE LeavesIn(_, _)
LeavesIn(forest, depth) ==
    UNION {LET t == forest[i]
           IN  IF t.subtests # Absent THEN LeavesIn(t.subtests[1], depth + 1)
               ELSE IF depth > 0 /\ t.name # Absent
               THEN {[name |-> t.name[1], testStatus |-> t.testStatus, depth |-> depth]}
               ELSE {} : i \in 1..Len(forest)}

EntryLines == SelectSeq(testDetails, LAMBDA l : l.kind = "entry")

EntryLabels == {EntryLines[i].label : i \in 1..Len(EntryLines)}

\* C5: for a legacy tree with both passing and failing leaves, every leaf
\* whose status is not "Success" has an entry line whatever the flag, and a
\* leaf whose status is "Success" has an entry line exactly when
\* showPassedTests is true.
C5_PassedTestsHiddenUnlessShown ==
    TreeRendered =>
        LET leaves == LeavesIn(testData[1].tests[1], 0)
            passing == {l \in leaves : l.testStatus = Present("Success")}
            failing == leaves \ passing
        IN  (passing # {} /\ failing # {}) =>
                /\ \A l \in failing : l.name \in EntryLabels
                /\ \A l \in passing : l.name \in EntryLabels <=> argv.showPassedTests

\* every node has a name and every top-level node is a suite
RECURSIVE AllNamed(_)
AllNamed(forest) ==
    \A i \in 1..Len(forest) :
        /\ forest[i].name # Absent
        /\ forest[i].subtests # Absent => AllNamed(forest[i].subtests[1])

SuitesOfTests(forest) ==
    AllNamed(forest) /\ \A i \in 1..Len(forest) : forest[i].subtests # Absent

\* the depth-first pre-order listing of a forest: a heading for a suite, then
\* its children one level deeper, an entry for a leaf at its nesting depth
RECURSIVE Flattened(_, _)
Flattened(forest, depth) ==
    IF forest = <<>> THEN <<>>
    ELSE LET t == Head(forest)
             own == IF t.subtests # Absent
                    THEN <<[kind |-> "h2", label |-> t.name[1], indent |-> 0]>>
                             \o Flattened(t.subtests[1], depth + 1)
                    ELSE <<[kind |-> "entry", label |-> t.name[1], indent |-> depth]>>
         IN  own \o Flattened(Tail(forest), depth)

\* the heading and entry lines of testDetails; the indent of an entry only
Listing ==
    LET ls == SelectSeq(testDetails, LAMBDA l : l.kind \in {"h2", "entry"})
    IN  [i \in 1..Len(ls) |->
            [kind |-> ls[i].kind, label |-> ls[i].label,
             indent |-> IF ls[i].kind = "entry" THEN ls[i].indent ELSE 0]]

\* C6: the heading and entry lines of a forest of named suites are those of
\* its depth-first pre-order walk in source order, each leaf entry indented
\* by its nesting depth; a suite without leaf descendants gives its heading
\* and no entry.
C6_PreOrderWithDepthIndent ==
    (TreeRendered /\ SuitesOfTests(testData[1].tests[1])) =>
        Listing = Flattened(testData[1].tests[1], 0)


(***************************************************************************)
(* Modern coverage aggregation: main of cli.ts from the coverage block on  *)
(* (cli.ts:285), on a valid bundle under Xcode 16 with                     *)
(* --show-code-coverage, after the test results were processed; the target *)
(* list varies over the outputs of at most MaxTargets lines and some       *)
(* longer ones.                                                            *)
(***************************************************************************)
CoverageArgs ==
    {a \in Args : /\ a.pathExists /\ a.isXcresultDir /\ a.showCodeCoverage
                  /\ ~a.githubAction /\ a.showPassedTests}

CoverageVersionOutput == XcodeLit \o <<"1", "6", ".", "3">>

CoverageModernDocs == {d \in PipelineModernDocs : d.testFailures = Present(<<Present(FailureA)>>)}

CoverageInit ==
    /\ pc = "coverage"
    /\ argv \in CoverageArgs
    /\ xcodeBuildOutput = CoverageVersionOutput
    /\ isXcode16OrHigher = IsXcode16OrHigher(CoverageVersionOutput)
    /\ \E doc \in CoverageModernDocs :
           /\ testData = Present(doc)
           /\ testSummary = ModernSummary(doc)
           /\ testDetails = ModernDetails(doc).lines
    /\ commands = <<[cmd |-> "xcodebuild -version", ok |-> TRUE],
                    [cmd |-> ModernTestCommand, ok |-> TRUE]>>
    /\ coverageSummary = <<>>
    /\ targets = <<>>
    /\ onlyTargetSupported = TRUE
    /\ targetIndex = 1
    /\ tempDir = "none"
    /\ stdout = <<>>
    /\ stderr = <<>>
    /\ exitCode = -1

CoverageNext ==
    \/ Main_CoverageReport
    \/ Main_CoverageTargets(AllTargetsOutputs)
    \/ Main_CoverageProbe
    \/ Main_CoverageTarget
    \/ Main_Output

SpecCoverage == CoverageInit /\ [][CoverageNext]_vars

\* the support probe has run, so the loop over the target lines has begun
ProbeRan == isXcode16OrHigher /\ CommandsOf(ProbeCommand) # {}

ProbeOk == \A i \in CommandsOf(ProbeCommand) : commands[i].ok

\* the commands issued after the probe
DetailCommands ==
    LET probe == CHOOSE i \in CommandsOf(ProbeCommand) : TRUE
    IN  SubSeq(commands, probe + 1, Len(commands))

\* the target lines the loop has gone through
Processed == SubSeq(targets, 1, targetIndex - 1)

\* what follows the heading "Target Coverage Details" in the section
Subsections == SubSeq(coverageSummary, 4, Len(coverageSummary))

Matching(targetLine) == TargetMatch(targetLine) # Absent

NameOf(targetLine) == Trim(TargetMatch(targetLine)[1])

Named(targetLine) == Matching(targetLine) /\ NameOf(targetLine) # <<>>

NamedTargets == SelectSeq(Processed, Named)

\* the names of the named target lines gone through, in list order
TargetNames ==
    LET named == SelectSeq(Processed, Named)
    IN  [i \in 1..Len(named) |-> Str(NameOf(named[i]))]

\* C7: with per-target detail supported, every named target line gone
\* through has its own subsection, in list order: its detail text when its
\* detail command succeeded, an inline error line when that command failed;
\* the coverage section is never replaced by the error section.
C7_TargetFailureStaysInline ==
    (ProbeRan /\ ProbeOk) =>
        LET names == TargetNames
            issued == DetailCommands
            sections == Subsections
        IN  /\ ~IsCoverageError
            /\ Len(sections) = 2 * Len(names)
            /\ Len(issued) = Len(names)
            /\ \A i \in 1..Len(names) :
                   /\ sections[2 * i - 1] = H3(names[i])
                   /\ issued[i].cmd = TargetCommand(names[i])
                   /\ IF issued[i].ok
                      THEN sections[2 * i] = Code(TargetDetail(names[i]))
                      ELSE /\ sections[2 * i].kind = "text"
                           /\ sections[2 * i].label = "Error getting details for target"
                           /\ sections[2 * i].value \in CommandErrors(TargetCommand(names[i]))

\* a finished run where the detail command of the second of three targets
\* failed and those of the first and the third succeeded
C7_Witness ==
    /\ pc = "done"
    /\ ProbeRan /\ ProbeOk
    /\ Len(NamedTargets) = 3
    /\ Len(DetailCommands) = 3
    /\ DetailCommands[1].ok /\ ~DetailCommands[2].ok /\ DetailCommands[3].ok
    /\ Subsections[4].kind = "text"
    /\ Subsections[6].kind = "code"

\* C8: when the support probe failed, no detail command is issued, every
\* named target line gone through has a subsection holding that line in a
\* fenced block, and the coverage section holds no error line.
C8_ProbeFailureFallsBackSilently ==
    (ProbeRan /\ ~ProbeOk) =>
        LET named == NamedTargets
            names == TargetNames
            sections == Subsections
        IN  /\ DetailCommands = <<>>
            /\ ~IsCoverageError
            /\ \A i \in 1..Len(coverageSummary) :
                   coverageSummary[i].kind \in {"h1", "h2", "h3", "code"}
            /\ Len(sections) = 2 * Len(named)
            /\ \A i \in 1..Len(named) :
                   /\ sections[2 * i - 1] = H3(names[i])
                   /\ sections[2 * i] = Code(Str(named[i]) \o "\n")

\* a finished run after a failed probe with two targets in the list
C8_Witness ==
    /\ pc = "done"
    /\ ProbeRan /\ ~ProbeOk
    /\ Len(NamedTargets) >= 2
    /\ Len(Subsections) = 2 * Len(NamedTargets)
    /\ coverageSummary \in Range(stdout)

\* C9 as stated: a line that does not match the pattern gets no subsection
\* and no detail command, and every line that matches gets exactly one
\* subsection, in list order.
C9_EveryMatchingLineGetsSubsection ==
    ProbeRan =>
        LET matching == SelectSeq(Processed, Matching)
            sections == Subsections
        IN  /\ ~IsCoverageError
            /\ Len(sections) = 2 * Len(matching)
            /\ ProbeOk => Len(DetailCommands) = Len(matching)
            /\ ~ProbeOk => DetailCommands = <<>>
            /\ \A i \in 1..Len(matching) :
                   /\ sections[2 * i - 1].kind = "h3"
                   /\ sections[2 * i - 1].label = Str(NameOf(matching[i]))
                   /\ sections[2 * i].kind # "h3"

\* C9 amended: a line that does not match the pattern, or that matches with
\* a name that is blank after trimming, gets no subsection and no detail
\* command; every other line gets exactly one subsection, in list order.
C9_EveryNamedLineGetsSubsection ==
    ProbeRan =>
        LET names == TargetNames
            sections == Subsections
        IN  /\ ~IsCoverageError
            /\ Len(sections) = 2 * Len(names)
            /\ ProbeOk => Len(DetailCommands) = Len(names)
            /\ ~ProbeOk => DetailCommands = <<>>
            /\ \A i \in 1..Len(names) :
                   /\ sections[2 * i - 1].kind = "h3"
                   /\ sections[2 * i - 1].label = names[i]
                   /\ sections[2 * i].kind # "h3"

\* a finished run over a list with a line that does not match between two
\* lines that get a subsection each
C9_Witness ==
    /\ pc = "done"
    /\ ProbeRan
    /\ Len(targets) = 3
    /\ Named(targets[1]) /\ ~Matching(targets[2]) /\ Named(targets[3])
    /\ Len(Subsections) = 4


(***************************************************************************)
(* The legacy test summary: runs of cli.ts on a valid bundle under an      *)
(* Xcode older than 16, without coverage, whose Info.plist varies over     *)
(* PlistOutputs and whose test document varies in its summaries, with      *)
(* counts up to MaxCount.                                                  *)
(***************************************************************************)
LegacySummaryArgs ==
    {a \in Args : a.pathExists /\ a.isXcresultDir /\ ~a.showCodeCoverage /\ ~a.showPassedTests}

LegacySummaryInit ==
    /\ pc = "start"
    /\ argv \in LegacySummaryArgs
    /\ Blank

LegacySummaryNext ==
    \/ Main_CheckBundle
    \/ Main_DetectVersion(TreeVersionOutputs)
    \/ Main_LegacyInfoPlist(PlistOutputs)
    \/ Main_LegacySummary
    \/ Main_LegacyTestDetails(SummaryDocs)
    \/ Main_Output

SpecLegacySummary == LegacySummaryInit /\ [][LegacySummaryNext]_vars

SummaryFields == SelectSeq(testSummary, LAMBDA l : l.kind = "field")

SummaryLabels == [i \in 1..Len(SummaryFields) |-> SummaryFields[i].label]

LegacyLabels == <<"Total tests", "Failed tests", "Unexpected failures", "Test duration">>

\* the first summary of a legacy test document that was rendered without an
\* error
RenderedSummary ==
    IF /\ ~isXcode16OrHigher /\ pc \in {"output", "done"} /\ ~IsTestError
       /\ testData # Absent /\ testData[1].summaries # Absent
       /\ Len(testData[1].summaries[1]) > 0
    THEN Present(testData[1].summaries[1][1])
    ELSE Absent

\* C10: under the legacy schema the summary section has either no field
\* line or exactly the lines for total tests, failed tests, unexpected
\* failures and test duration, in this order, with the values of the
\* document; no line of the section is labelled passed tests, skipped tests
\* or expected failures.
C10_LegacySummaryFields ==
    ~isXcode16OrHigher =>
        /\ SummaryLabels \in {<<>>, LegacyLabels}
        /\ \A i \in 1..Len(testSummary) :
               testSummary[i].label \notin {"Passed tests", "Skipped tests", "Expected failures"}
        /\ RenderedSummary # Absent =>
               LET totals == RenderedSummary[1].totals[1]
               IN  /\ SummaryLabels = LegacyLabels
                   /\ SummaryFields[1].value = ToString(totals.testsCount[1])
                   /\ SummaryFields[2].value = ToString(totals.failedCount[1])
                   /\ SummaryFields[3].value = ToString(totals.unexpectedFailureCount[1])

\* a finished legacy run that printed the four fields of a document
C10_Witness ==
    /\ pc = "done"
    /\ RenderedSummary # Absent
    /\ SummaryLabels = LegacyLabels
    /\ SummaryFields[1].value = ToString(MaxCount)
    /\ SummaryFields[4].value = "2.00 seconds"
    /\ testSummary \in Range(stdout)


(***************************************************************************)
(* The modern test summary: runs of cli.ts on a valid bundle under Xcode   *)
(* 16, without coverage, whose summary document varies over AllModernDocs: *)
(* every count from 0 to MaxCount independently of the others.             *)
(***************************************************************************)
ModernInit ==
    /\ pc = "start"
    /\ argv \in TreeArgs
    /\ Blank

ModernNext ==
    \/ Main_CheckBundle
    \/ Main_DetectVersion({CoverageVersionOutput})
    \/ Main_ModernTestResults(AllModernDocs)
    \/ Main_Output

SpecModern == ModernInit /\ [][ModernNext]_vars

\* the modern document whose summary section was rendered
RenderedModern ==
    IF /\ isXcode16OrHigher /\ pc \in {"output", "done"} /\ ~IsTestError
       /\ testData # Absent
    THEN testData
    ELSE Absent

ModernLabels ==
    <<"Total tests", "Passed tests", "Failed tests", "Skipped tests",
      "Expected failures", "Result">>

\* C11: the summary section of a modern document lists, in this order, the
\* total, passed, failed, skipped and expected-failure counts and the result
\* with exactly the values of totalTestCount, passedTests, failedTests,
\* skippedTests, expectedFailures and result of the document, whatever the
\* other counts and the failure map are.
C11_ModernCountsVerbatim ==
    RenderedModern # Absent =>
        LET doc == RenderedModern[1]
        IN  /\ SummaryLabels = ModernLabels
            /\ SummaryFields[1].value = ToString(doc.totalTestCount[1])
            /\ SummaryFields[2].value = ToString(doc.passedTests[1])
            /\ SummaryFields[3].value = ToString(doc.failedTests[1])
            /\ SummaryFields[4].value = ToString(doc.skippedTests[1])
            /\ SummaryFields[5].value = ToString(doc.expectedFailures[1])
            /\ SummaryFields[6].value = doc.result[1]

\* a finished run on a document whose counts do not add up and whose failure
\* map has more entries than failedTests says
C11_Witness ==
    /\ pc = "done"
    /\ RenderedModern # Absent
    /\ LET doc == RenderedModern[1]
       IN  /\ doc.passedTests[1] + doc.failedTests[1] + doc.skippedTests[1]
                  > doc.totalTestCount[1]
           /\ doc.failedTests[1] = 0
           /\ doc.testFailures # Absent /\ Len(doc.testFailures[1]) = 2
           /\ doc.result = Present("Passed")
    /\ SummaryLabels = ModernLabels
    /\ testSummary \in Range(stdout)


\* the whole-bundle report of the modern schema is in the coverage section
WholeReportRecorded ==
    /\ isXcode16OrHigher
    /\ Len(coverageSummary) >= 2
    /\ coverageSummary[1] = H1("Code Coverage Summary")
    /\ coverageSummary[2].kind = "code"

\* C12: once the whole-bundle report is recorded in the coverage section, no
\* later step removes or changes it: the heading and the fenced block with
\* the text of the report stay the first two lines of the section, and the
\* section that is printed holds them.
C12_WholeReportKept ==
    [][WholeReportRecorded =>
           /\ Len(coverageSummary') >= 2
           /\ SubSeq(coverageSummary', 1, 2) = SubSeq(coverageSummary, 1, 2)
           /\ pc' = "done" => coverageSummary \in Range(stdout')]_vars


\* every node of a forest, at the top level or below it
RECURSIVE NodesOf(_, _)
NodesOf(forest, depth) ==
    UNION {{[node |-> forest[i], depth |-> depth]}
               \cup (IF forest[i].subtests = Absent THEN {}
                     ELSE NodesOf(forest[i].subtests[1], depth + 1)) : i \in 1..Len(forest)}

\* the lines of testDetails of one kind that carry a name
LinesOf(kind, name) == SelectSeq(testDetails, LAMBDA l : l.kind = kind /\ l.label = name)

\* C13: in the walk of a forest of named nodes, every node without subtests,
\* at the top level or inside a suite, has exactly one entry line and no
\* heading: marked passed exactly when its status is "Success", with "?" for
\* an absent duration; every node with subtests has exactly one heading and
\* no entry line, whatever leaf fields it carries.
C13_LeavesAndSuites ==
    (TreeRendered /\ AllNamed(testData[1].tests[1])) =>
        \A n \in NodesOf(testData[1].tests[1], 0) :
            LET name == n.node.name[1]
                entries == LinesOf("entry", name)
                headings == LinesOf("h2", name)
            IN  IF n.node.subtests = Absent
                THEN /\ Len(entries) = 1
                     /\ Len(headings) = 0
                     /\ entries[1].mark = "check" <=> n.node.testStatus = Present("Success")
                     /\ n.node.duration = Absent => entries[1].value = "?"
                ELSE /\ Len(headings) = 1
                     /\ Len(entries) = 0


\* C14: whenever test-result processing has failed, the detail section is
\* empty: the error summary section is never accompanied by test details
\* rendered before the failure, in the sections kept and in the report
\* printed.
C14_NoPartialDetailsAfterFailure ==
    IsTestError =>
        /\ testDetails = <<>>
        /\ pc = "done" => \A i \in 1..Len(stdout) : stdout[i] = <<>> \/ stdout[i][1] # H1("Test Details")

====
